---------------------------- MODULE Spec2Model ----------------------------
(***************************************************************************)
(* Edge/origin CDN: the edge's bounded LRU/TTL memory cache, signed-URL    *)
(* generation and verification, and the GET /cdn/:file_id pipeline with    *)
(* its origin fetches.                                                     *)
(*                                                                         *)
(* JavaScript strings are modelled as sequences of one-character strings   *)
(* (<<"a", ":", "7">>), so that concatenation, parseInt and one-character  *)
(* edits are computed character by character.                              *)
(***************************************************************************)
EXTENDS Integers, Sequences, FiniteSets, Bags, TLC

VARIABLES
    config,     \* the edge configuration read at start-up (src/shared/config.js)
    now,        \* the wall clock, in milliseconds (Date.now / performance.now)
    cache,      \* memoryCache: the LRU list, least recently used first
    hist,       \* history: per cache key, the times of its last set and use
    useOrder,   \* history: cache keys by their most recent successful get or set
    lastOp,     \* history: the last cache operation, its arguments and result
    files,      \* the origin's files table
    issued,     \* the signed URLs generated so far
    reqs,       \* the bag of GET /cdn/:file_id requests in flight, each at its await
    reply,      \* the reply the last step sent, if it sent one
    sig         \* the sign/verify harness: the last call and its result

vars == <<config, now, cache, hist, useOrder, lastOp, files, issued, reqs, reply, sig>>

---------------------------------------------------------------------------
(* Bounds of the model *)

\* the clock stops after this many half-second ticks
MaxTicks == 4
\* largest config.cache.maxSize the model draws
MaxCacheSize == 2
\* largest expiresIn, in seconds, handed to generateSignedUrl
MaxExpiresIn == 1
\* GET /cdn/:file_id requests the edge handles at the same time
MaxRequests == 2
\* purges of one file
MaxPurges == 2
\* longest cached content, in bytes, handed to serveContent
MaxContent == 3

---------------------------------------------------------------------------
(* Program constants *)

\* Math.floor(Date.now() / 1000)
MsPerSec == 1000
\* generateCacheKey(filename, version = 1)
DefaultVersion == 1

\* the clock advances in half seconds
TickMs == MsPerSec \div 2
\* the clock reads ten seconds when the servers start
BootTime == 10 * MsPerSec
MaxNow == BootTime + MaxTicks * TickMs

---------------------------------------------------------------------------
(* Strings *)

Digits == <<"0", "1", "2", "3", "4", "5", "6", "7", "8", "9">>

DigitVal(ch) == CHOOSE d \in 0..9 : Digits[d + 1] = ch

IsDigit(ch) == \E d \in 0..9 : Digits[d + 1] = ch

\* String(n) for an integer n: the decimal digits, "-" first when negative
RECURSIVE NatToStr(_)
NatToStr(n) == IF n < 10 THEN <<Digits[n + 1]>>
               ELSE NatToStr(n \div 10) \o <<Digits[(n % 10) + 1]>>

NumToStr(n) == IF n < 0 THEN <<"-">> \o NatToStr(0 - n) ELSE NatToStr(n)

\* the value undefined / null of a lookup that found nothing
Null == [null |-> TRUE]

---------------------------------------------------------------------------
(* The cache: src/edge/cache.js over lru-cache                             *)

\* generateCacheKey(filename, version = 1): `${filename}:v${version}`
generateCacheKey(filename, version) == filename \o <<":", "v">> \o NumToStr(version)

KeysOf(c) == {c[i].key : i \in 1..Len(c)}

IndexOf(c, key) == CHOOSE i \in 1..Len(c) : c[i].key = key

Without(c, key) == SelectSeq(c, LAMBDA e : e.key # key)

\* mutant: the ttl option is not handed to the cache, so nothing is ever stale
isStale_NoTtl(e, t) == FALSE

\* lru-cache isStale: an entry is stale once more than ttl has passed since its start
isStale(e, t) == config.ttl # 0 /\ t - e.start > config.ttl

\* mutant: a get leaves the entry where it is in the recency order
LruGetCache_NoPromote(c, key, t) ==
    IF key \notin KeysOf(c) THEN c
    ELSE LET i == IndexOf(c, key) IN
         IF isStale(c[i], t) THEN Without(c, key)
         ELSE [c EXCEPT ![i].start = t]

\* mutant: updateAgeOnGet off, a get promotes the entry and leaves its age
LruGetCache_NoAgeUpdate(c, key, t) ==
    IF key \notin KeysOf(c) THEN c
    ELSE LET e == c[IndexOf(c, key)] IN
         IF isStale(e, t) THEN Without(c, key)
         ELSE Append(Without(c, key), e)

\* mutant: a get restarts the age of a stale entry instead of deleting it
LruGetCache_ReviveStale(c, key, t) ==
    IF key \notin KeysOf(c) THEN c
    ELSE LET e == c[IndexOf(c, key)] IN
         Append(Without(c, key), [e EXCEPT !.start = t])

\* lru-cache get with updateAgeOnGet: a stale entry is deleted and undefined is
\* returned; a live one moves to the most recently used end and its age restarts
LruGetCache(c, key, t) ==
    IF key \notin KeysOf(c) THEN c
    ELSE LET e == c[IndexOf(c, key)] IN
         IF isStale(e, t) THEN Without(c, key)
         ELSE Append(Without(c, key), [e EXCEPT !.start = t])

\* mutant: allowStale, a stale entry is still returned
LruGetValue_AllowStale(c, key, t) ==
    IF key \notin KeysOf(c) THEN Null ELSE c[IndexOf(c, key)].value

LruGetValue(c, key, t) ==
    IF key \notin KeysOf(c) THEN Null
    ELSE LET e == c[IndexOf(c, key)] IN
         IF isStale(e, t) THEN Null ELSE e.value

\* lru-cache set: an existing key is overwritten and moved to the most recently
\* used end; a new key at capacity first evicts the least recently used entry
\* a set that never evicts
LruSet_NoEvict(c, key, value, t) ==
    LET e == [key |-> key, value |-> value, start |-> t] IN
    IF key \in KeysOf(c) THEN Append(Without(c, key), e) ELSE Append(c, e)

LruSet(c, key, value, t) ==
    LET e == [key |-> key, value |-> value, start |-> t] IN
    IF key \in KeysOf(c) THEN Append(Without(c, key), e)
    ELSE IF Len(c) >= config.maxSize THEN Append(Tail(c), e)
    ELSE Append(c, e)

\* getFromCache(key): null without a cache
\* a lookup that never finds anything
getFromCacheValue_AlwaysMiss(c, key, t) == Null

getFromCacheValue(c, key, t) ==
    IF ~config.memoryEnabled THEN Null ELSE LruGetValue(c, key, t)

getFromCacheState(c, key, t) ==
    IF ~config.memoryEnabled THEN c ELSE LruGetCache(c, key, t)

\* setInCache(key, value)
\* a setInCache that stores whether or not the cache is switched on
setInCache_IgnoreSwitch(c, key, value, t) == LruSet(c, key, value, t)

\* mutant: a set of a key the cache holds is dropped, the first fill stays
setInCache_KeepFirst(c, key, value, t) ==
    IF ~config.memoryEnabled \/ key \in KeysOf(c) THEN c ELSE LruSet(c, key, value, t)

setInCache(c, key, value, t) ==
    IF ~config.memoryEnabled THEN c ELSE LruSet(c, key, value, t)

\* deleteFromCache(key)
\* a delete that removes nothing
deleteFromCache_Nothing(c, key) == c

deleteFromCache(c, key) ==
    IF ~config.memoryEnabled THEN c ELSE Without(c, key)

\* clearCache()
clearCache(c) ==
    IF ~config.memoryEnabled THEN c ELSE <<>>

\* getCacheStats()
getCacheStats ==
    IF ~config.memoryEnabled THEN [enabled |-> FALSE]
    ELSE [enabled |-> TRUE, size |-> Len(cache),
          maxSize |-> config.maxSize, ttl |-> config.ttl]

---------------------------------------------------------------------------
(* Signed URLs: src/shared/crypto.js                                       *)

\* a JavaScript number: an integer, or NaN
Num(n) == [nan |-> FALSE, val |-> n]
NaN == [nan |-> TRUE, val |-> 0]

\* `${n}` for a number
NumberToStr(n) == IF n.nan THEN <<"N", "a", "N">> ELSE NumToStr(n.val)

\* a > b on numbers: false whenever either side is NaN
NumGt(a, b) == ~a.nan /\ ~b.nan /\ a.val > b.val

IsSpace(ch) == ch = " "

RECURSIVE SkipSpaces(_)
SkipSpaces(s) == IF Len(s) > 0 /\ IsSpace(Head(s)) THEN SkipSpaces(Tail(s)) ELSE s

\* the longest prefix of decimal digits
RECURSIVE DigitPrefix(_)
DigitPrefix(s) == IF Len(s) > 0 /\ IsDigit(Head(s))
                  THEN <<Head(s)>> \o DigitPrefix(Tail(s)) ELSE <<>>

RECURSIVE DigitsValue(_)
DigitsValue(ds) == IF Len(ds) = 0 THEN 0
                   ELSE 10 * DigitsValue(SubSeq(ds, 1, Len(ds) - 1)) + DigitVal(ds[Len(ds)])

\* parseInt(s): leading white space is skipped, one sign is read, then the
\* decimal digits up to the first other character; NaN when there is no digit
parseInt(s) ==
    LET t    == SkipSpaces(s)
        neg  == Len(t) > 0 /\ Head(t) = "-"
        body == IF Len(t) > 0 /\ Head(t) \in {"-", "+"} THEN Tail(t) ELSE t
        ds   == DigitPrefix(body)
    IN IF Len(ds) = 0 THEN NaN
       ELSE Num(IF neg THEN 0 - DigitsValue(ds) ELSE DigitsValue(ds))

HexDigits == Digits \o <<"a", "b", "c", "d", "e", "f">>

\* the characters of the secrets and of the signed data
CharTable == Digits \o <<"a", "b", "c", "k", ":", "-", "N", "x", " ", "+", "v">>

CharCode(ch) == CHOOSE i \in 1..Len(CharTable) : CharTable[i] = ch

HexByte(n) == <<HexDigits[(n \div 16) + 1], HexDigits[(n % 16) + 1]>>

RECURSIVE HexOf(_)
HexOf(s) == IF Len(s) = 0 THEN <<>> ELSE HexByte(CharCode(Head(s))) \o HexOf(Tail(s))

\* crypto.createHmac('sha256', secret).update(data).digest('hex'): the digest is
\* taken to be collision free, so it is modelled by an injective hex encoding of
\* the key and the data
HmacHex(secret, data) == HexOf(secret) \o HexByte(0) \o HexOf(data)

\* Math.floor(t / 1000) for Date.now() = t
Seconds(t) == t \div MsPerSec

\* mutant: the expiry is not checked
verifySignedUrl_NoExpiry(fileId, expires, signature, t) ==
    signature = HmacHex(config.jwtSecret, fileId \o <<":">> \o NumberToStr(expires))

\* mutant: the signed data leaves out the separator
generateSignedUrl_NoSeparator(fileId, expiresIn, t) ==
    LET expires == Seconds(t) + expiresIn
    IN [fileId |-> fileId, expires |-> expires,
        signature |-> HmacHex(config.jwtSecret, fileId \o NumToStr(expires))]

\* generateSignedUrl(fileId, expiresIn) called when Date.now() = t
generateSignedUrl(fileId, expiresIn, t) ==
    LET expires == Seconds(t) + expiresIn
        data    == fileId \o <<":">> \o NumToStr(expires)
    IN [fileId |-> fileId, expires |-> expires,
        signature |-> HmacHex(config.jwtSecret, data)]

\* verifySignedUrl(fileId, expires, signature) called when Date.now() = t
verifySignedUrl(fileId, expires, signature, t) ==
    IF NumGt(Num(Seconds(t)), expires) THEN FALSE
    ELSE signature = HmacHex(config.jwtSecret, fileId \o <<":">> \o NumberToStr(expires))

---------------------------------------------------------------------------
(* Configurations and initial values                                       *)

\* config.cache.ttl values drawn: one tick and two ticks
TtlChoices == {TickMs, 2 * TickMs}

Secret == <<"k">>

\* config.security.signedUrlExpiry, in seconds
ExpiryChoices == {0, 1}

Configs(enabledSet, expirySet) ==
    [memoryEnabled : enabledSet, maxSize : 1..MaxCacheSize, ttl : TtlChoices,
     jwtSecret : {Secret}, signedUrlExpiry : expirySet,
     gzip : {TRUE}, brotli : {TRUE}]

FileIds == {<<"a">>, <<"b">>, <<"c">>}

CacheKeys == {generateCacheKey(id, DefaultVersion) : id \in FileIds}

NoHist == [setAt |-> -1, useAt |-> -1, gotSince |-> FALSE]

NoOp == [op |-> "none"]
NoReply == [pc |-> "none"]

NoSig == [op |-> "none"]

Tick ==
    /\ now + TickMs <= MaxNow
    /\ now' = now + TickMs
    /\ UNCHANGED <<config, cache, hist, useOrder, lastOp, files, issued, reqs, reply, sig>>

---------------------------------------------------------------------------
(* The cache on its own: get, set, delete and clear called in any order    *)

\* the cached value the calls store
CacheValues == {[content |-> <<1>>, metadata |-> [contentType |-> "text/plain"]]}

Touch(order, key) == Append(SelectSeq(order, LAMBDA k : k # key), key)

\* the history is kept for the keys the cache physically holds
HistOf(h, c) == [k \in CacheKeys |-> IF k \in KeysOf(c) THEN h[k] ELSE NoHist]

OrderOf(order, c) == SelectSeq(order, LAMBDA k : k \in KeysOf(c))

\* what a set of key finds: the cache switched off, the key held, the cache at
\* capacity, or room
SetKind(c, key) ==
    IF ~config.memoryEnabled THEN "none"
    ELSE IF key \in KeysOf(c) THEN "set-over"
    ELSE IF Len(c) = config.maxSize THEN "set-full" ELSE "set-new"

CacheGet(key) ==
    LET v == getFromCacheValue(cache, key, now) IN
    /\ cache' = getFromCacheState(cache, key, now)
    /\ lastOp' = [op |-> IF v # Null THEN "get-hit"
                         ELSE IF key \in KeysOf(cache) THEN "get-stale" ELSE "get-miss"]
    /\ hist' = HistOf([hist EXCEPT ![key].gotSince = TRUE,
                                   ![key].useAt = IF v # Null THEN now ELSE @], cache')
    /\ useOrder' = OrderOf(IF v # Null THEN Touch(useOrder, key) ELSE useOrder, cache')
    /\ UNCHANGED <<config, now, files, issued, reqs, reply, sig>>

CacheSet(key, value) ==
    /\ cache' = setInCache(cache, key, value, now)
    /\ lastOp' = [op |-> SetKind(cache, key)]
    /\ hist' = HistOf([hist EXCEPT ![key] = [setAt |-> now, useAt |-> now,
                                             gotSince |-> FALSE]], cache')
    /\ useOrder' = OrderOf(Touch(useOrder, key), cache')
    /\ UNCHANGED <<config, now, files, issued, reqs, reply, sig>>

CacheDelete(key) ==
    /\ cache' = deleteFromCache(cache, key)
    /\ lastOp' = [op |-> "delete"]
    /\ hist' = HistOf(hist, cache')
    /\ useOrder' = OrderOf(useOrder, cache')
    /\ UNCHANGED <<config, now, files, issued, reqs, reply, sig>>

CacheClear ==
    /\ cache' = clearCache(cache)
    /\ lastOp' = [op |-> "clear"]
    /\ hist' = HistOf(hist, cache')
    /\ useOrder' = OrderOf(useOrder, cache')
    /\ UNCHANGED <<config, now, files, issued, reqs, reply, sig>>

InitCache ==
    /\ config \in Configs({TRUE}, {0})
    /\ now = BootTime
    /\ cache = <<>>
    /\ hist = [k \in CacheKeys |-> NoHist]
    /\ useOrder = <<>>
    /\ lastOp = NoOp
    /\ files = <<>>
    /\ issued = {}
    /\ reqs = EmptyBag
    /\ reply = NoReply
    /\ sig = NoSig

NextCache ==
    \/ Tick
    \/ \E key \in CacheKeys : CacheGet(key)
    \/ \E key \in CacheKeys, value \in CacheValues : CacheSet(key, value)
    \/ \E key \in CacheKeys : CacheDelete(key)
    \/ CacheClear

SpecCache == InitCache /\ [][NextCache]_vars

---------------------------------------------------------------------------
(* Properties of the cache on its own                                     *)

\* C2: a set of a key the cache does not hold, made while the cache holds maxSize
\* entries, removes exactly one entry, the one whose most recent successful get
\* or set is the oldest, and leaves every other entry as it was.
C2_SetEvictsLeastRecentlyUsed ==
    [][\A key \in CacheKeys, value \in CacheValues :
          (CacheSet(key, value) /\ key \notin KeysOf(cache) /\ Len(cache) = config.maxSize)
          => LET victim == Head(useOrder) IN
             /\ KeysOf(cache') = (KeysOf(cache) \ {victim}) \cup {key}
             /\ Len(cache') = Len(cache)
             /\ \A i \in 1..Len(cache) :
                   cache[i].key # victim => \E j \in 1..Len(cache') : cache'[j] = cache[i]
      ]_vars

\* a set has just evicted: the key was new and the cache was full
C2_Witness == lastOp.op = "set-full" /\ Len(cache) = config.maxSize /\ Len(cache) > 1

\* C3: a get of a key returns absence when more than ttl has passed since the key
\* was set with no get or set of it in between, the entry being still held (and as
\* well when the key is not held at all).
C3_GetAfterTtlIsAbsent ==
    [][\A key \in CacheKeys :
          (/\ CacheGet(key)
           /\ \/ key \notin KeysOf(cache)
              \/ /\ hist[key].setAt >= 0
                 /\ ~hist[key].gotSince
                 /\ now - hist[key].setAt > config.ttl)
          => /\ lastOp'.op # "get-hit"
             /\ getFromCacheValue(cache, key, now) = Null
             /\ key \notin KeysOf(cache')
      ]_vars

\* a get has just found its entry held but past its ttl
C3_Witness == lastOp.op = "get-stale"

\* C4 as stated: a get never returns an entry later than ttl after the set that
\* stored it, whatever gets happened in between.
C4_ExpiresTtlAfterSet ==
    [][\A key \in CacheKeys :
          (CacheGet(key) /\ lastOp'.op = "get-hit")
          => now - hist[key].setAt <= config.ttl
      ]_vars

\* C4 amended: a get never returns an entry later than ttl after the most recent
\* set or successful get of its key.
C4_ExpiresTtlAfterLastUse ==
    [][\A key \in CacheKeys :
          (CacheGet(key) /\ lastOp'.op = "get-hit")
          => /\ hist[key].useAt >= 0
             /\ now - hist[key].useAt <= config.ttl
      ]_vars

\* a get has just returned an entry set more than ttl ago
C4_Witness ==
    /\ lastOp.op = "get-hit"
    /\ \E key \in CacheKeys : hist[key].useAt = now /\ now - hist[key].setAt > config.ttl

\* C22: in the default configuration a get that returns the entry refreshes its
\* recency and its expiry: a later get of the key, made no more than ttl after
\* that get with the key not deleted, cleared or evicted in between, returns the
\* entry again and leaves it the most recently used
C22_GetRefreshesExpiryAndRecency ==
    [][\A key \in CacheKeys :
          (/\ CacheGet(key)
           /\ key \in KeysOf(cache)
           /\ hist[key].gotSince
           /\ now - hist[key].useAt <= config.ttl)
          => /\ lastOp'.op = "get-hit"
             /\ getFromCacheValue(cache, key, now) # Null
             /\ cache'[Len(cache')].key = key
             /\ hist'[key].useAt = now
      ]_vars

\* a get returned an entry that an earlier get had kept alive past ttl after
\* its set, and the entry is the most recently used of several
C22_Witness ==
    /\ lastOp.op = "get-hit" /\ Len(cache) > 1
    /\ LET key == cache[Len(cache)].key IN
          /\ hist[key].gotSince /\ hist[key].useAt = now
          /\ now - hist[key].setAt > config.ttl

---------------------------------------------------------------------------
(* Signing and verifying on their own                                      *)

\* a generated URL, with the time and the expiresIn of its generation
Issue(fileId, expiresIn) ==
    LET u == generateSignedUrl(fileId, expiresIn, now) IN
    [fileId |-> u.fileId, expires |-> u.expires, signature |-> u.signature,
     at |-> now, expiresIn |-> expiresIn]

\* the harness keeps the URL generated last
SignUrl(fileId, expiresIn) ==
    /\ issued' = {Issue(fileId, expiresIn)}
    /\ sig' = [op |-> "sign"]
    /\ UNCHANGED <<config, now, cache, hist, useOrder, lastOp, files, reqs, reply>>

VerifyUrl(fileId, expires, signature) ==
    /\ sig' = [op |-> "verify", fileId |-> fileId, expires |-> expires,
               signature |-> signature, at |-> now,
               result |-> verifySignedUrl(fileId, expires, signature, now)]
    /\ UNCHANGED <<config, now, cache, hist, useOrder, lastOp, files, issued, reqs, reply>>

\* the expiry times a verification is tried with
ExpiresInputs ==
    {Num(e) : e \in (Seconds(BootTime) - 1)..(Seconds(MaxNow) + MaxExpiresIn)} \cup {NaN}

\* the signatures a verification is tried with: the right one under the secret,
\* the right one under another key, every generated one, and the empty string
SignatureInputs(fileId, expires) ==
    {HmacHex(k, fileId \o <<":">> \o NumberToStr(expires)) : k \in {Secret, <<"x">>}}
        \cup {u.signature : u \in issued} \cup {<<>>}

InitSign ==
    /\ config \in Configs({TRUE}, {MaxExpiresIn})
    /\ config.maxSize = 1 /\ config.ttl = TickMs
    /\ now = BootTime
    /\ cache = <<>>
    /\ hist = [k \in CacheKeys |-> NoHist]
    /\ useOrder = <<>>
    /\ lastOp = NoOp
    /\ files = <<>>
    /\ issued = {}
    /\ reqs = EmptyBag
    /\ reply = NoReply
    /\ sig = NoSig

NextSign ==
    \/ Tick
    \/ \E fileId \in FileIds, expiresIn \in 0..MaxExpiresIn : SignUrl(fileId, expiresIn)
    \/ \E fileId \in FileIds, expires \in ExpiresInputs :
          \E signature \in SignatureInputs(fileId, expires) :
              VerifyUrl(fileId, expires, signature)

SpecSign == InitSign /\ [][NextSign]_vars

\* C6: verify answers false whenever the current second is past expires, whatever
\* the signature; up to and including expires it answers true exactly when the
\* signature is the hex HMAC of resourceId ":" expires under the secret; it always
\* answers true or false.
C6_VerifyExpiryThenHmac ==
    sig.op = "verify" =>
        /\ sig.result \in BOOLEAN
        /\ ~sig.expires.nan =>
             IF Seconds(sig.at) > sig.expires.val THEN sig.result = FALSE
             ELSE sig.result <=>
                  (sig.signature =
                     HmacHex(Secret, sig.fileId \o <<":">> \o NumToStr(sig.expires.val)))

\* an expired token with the right signature has just been refused
C6_Witness ==
    /\ sig.op = "verify" /\ ~sig.expires.nan /\ sig.result = FALSE
    /\ Seconds(sig.at) > sig.expires.val
    /\ sig.signature = HmacHex(Secret, sig.fileId \o <<":">> \o NumToStr(sig.expires.val))

\* C7: the expires and signature that sign returns for a resource verify for that
\* resource at every second up to and including signing time + ttlSeconds, and at
\* no later second.
C7_SignThenVerify ==
    sig.op = "verify" =>
        \A u \in issued :
            (sig.fileId = u.fileId /\ sig.expires = Num(u.expires)
                /\ sig.signature = u.signature)
            => (sig.result <=> Seconds(sig.at) <= Seconds(u.at) + u.expiresIn)

\* a generated URL has just verified in its last valid second, after the second
\* it was generated in
C7_Witness ==
    /\ sig.op = "verify" /\ sig.result = TRUE
    /\ \E u \in issued :
          /\ sig.fileId = u.fileId /\ sig.expires = Num(u.expires)
          /\ sig.signature = u.signature
          /\ Seconds(sig.at) = Seconds(u.at) + u.expiresIn
          /\ u.expiresIn > 0

---------------------------------------------------------------------------
(* Values of HTTP messages                                                 *)

\* an optional string: a query parameter or a header that may be missing
Absent == [present |-> FALSE, str |-> <<>>]
Str(s) == [present |-> TRUE, str |-> s]

\* JavaScript truthiness of an optional string: present and not empty
Truthy(p) == p.present /\ Len(p.str) > 0

\* a response header: missing, or set to a value
NoH == [present |-> FALSE]
H(v) == [present |-> TRUE, v |-> v]

NumAdd(a, b) == IF a.nan \/ b.nan THEN NaN ELSE Num(a.val + b.val)
NumSub(a, b) == IF a.nan \/ b.nan THEN NaN ELSE Num(a.val - b.val)
NumLe_Strict(a, b) == ~a.nan /\ ~b.nan /\ a.val < b.val

\* a <= b on numbers: false whenever either side is NaN
NumLe(a, b) == ~a.nan /\ ~b.nan /\ a.val <= b.val

IsPrefix(pre, s) == Len(pre) <= Len(s) /\ SubSeq(s, 1, Len(pre)) = pre

\* s.includes(sub)
Includes(s, sub) ==
    \E i \in 1..(Len(s) - Len(sub) + 1) : SubSeq(s, i, i + Len(sub) - 1) = sub

\* s.replace(/pat/, ''): the first occurrence of pat is removed
RECURSIVE RemoveFirst(_, _)
RemoveFirst(s, pat) ==
    IF Len(s) < Len(pat) THEN s
    ELSE IF IsPrefix(pat, s) THEN SubSeq(s, Len(pat) + 1, Len(s))
    ELSE <<Head(s)>> \o RemoveFirst(Tail(s), pat)

\* s.split(ch): the pieces between the occurrences of ch
RECURSIVE Split(_, _)
Split(s, ch) ==
    IF \A i \in 1..Len(s) : s[i] # ch THEN <<s>>
    ELSE LET i == CHOOSE j \in 1..Len(s) : s[j] = ch /\ \A k \in 1..(j - 1) : s[k] # ch
         IN <<SubSeq(s, 1, i - 1)>> \o Split(SubSeq(s, i + 1, Len(s)), ch)

\* buffer.slice(start, end): NaN counts as 0, a negative index counts from the
\* end, and both indices are clamped to the buffer
SliceIndex(n, len) ==
    IF n.nan THEN 0
    ELSE IF n.val < 0 THEN (IF len + n.val < 0 THEN 0 ELSE len + n.val)
    ELSE IF n.val > len THEN len ELSE n.val

\* mutant: the slice is compressed before it is sent; the compressed stream is
\* the slice behind a header byte
BufferSlice_Compressed(content, start, end) ==
    LET a == SliceIndex(start, Len(content))
        b == SliceIndex(end, Len(content))
    IN <<0>> \o (IF a >= b THEN <<>> ELSE SubSeq(content, a + 1, b))

BufferSlice_EndInclusive(content, start, end) ==
    LET a == SliceIndex(start, Len(content))
        b == SliceIndex(end, Len(content))
    IN IF a > b THEN <<>>
       ELSE SubSeq(content, a + 1, IF b + 1 > Len(content) THEN Len(content) ELSE b + 1)

BufferSlice(content, start, end) ==
    LET a == SliceIndex(start, Len(content))
        b == SliceIndex(end, Len(content))
    IN IF a >= b THEN <<>> ELSE SubSeq(content, a + 1, b)

BytesEq == <<"b", "y", "t", "e", "s", "=">>
BytesSp == <<"b", "y", "t", "e", "s", " ">>
TextPlain == <<"t", "e", "x", "t", "/", "p", "l", "a", "i", "n">>
ImagePng == <<"i", "m", "a", "g", "e", "/", "p", "n", "g">>
EncBr == <<"b", "r">>
EncGzip == <<"g", "z", "i", "p">>

\* zlib's output for a buffer: its bytes are not computed, the output is the
\* input under a marker of the algorithm
Compressed(alg, content) == <<alg>> \o content

---------------------------------------------------------------------------
(* Response assembly: src/edge/routes/cdn.js                               *)

\* isCompressibleType(contentType)
compressibleTypes ==
    << <<"t", "e", "x", "t", "/">>,
       <<"a", "p", "p", "l", "i", "c", "a", "t", "i", "o", "n", "/",
         "j", "a", "v", "a", "s", "c", "r", "i", "p", "t">>,
       <<"a", "p", "p", "l", "i", "c", "a", "t", "i", "o", "n", "/", "j", "s", "o", "n">>,
       <<"a", "p", "p", "l", "i", "c", "a", "t", "i", "o", "n", "/", "x", "m", "l">>,
       <<"a", "p", "p", "l", "i", "c", "a", "t", "i", "o", "n", "/",
         "x", "-", "j", "a", "v", "a", "s", "c", "r", "i", "p", "t">>,
       <<"i", "m", "a", "g", "e", "/", "s", "v", "g", "+", "x", "m", "l">> >>

isCompressibleType(contentType) ==
    \E i \in 1..Len(compressibleTypes) : IsPrefix(compressibleTypes[i], contentType)

NoHeaders ==
    [contentType |-> NoH, cacheControl |-> NoH, xCache |-> NoH, etag |-> NoH,
     lastModified |-> NoH, contentRange |-> NoH, acceptRanges |-> NoH,
     contentLength |-> NoH, contentEncoding |-> NoH, vary |-> NoH]

EmptyBody == [kind |-> "empty"]
Buffer(bytes) == [kind |-> "buffer", bytes |-> bytes]
ErrorBody(msg) == [kind |-> "json", error |-> msg]

Reply(status, headers, body) == [status |-> status, headers |-> headers, body |-> body]

ifNoneMatchEquals_IgnoreQuotes(ifNoneMatch, etag) ==
    /\ Truthy(ifNoneMatch) /\ Truthy(etag)
    /\ SelectSeq(ifNoneMatch.str, LAMBDA ch : ch # "\"")
          = SelectSeq(etag.str, LAMBDA ch : ch # "\"")

\* mutant: the If-None-Match check is left out
ifNoneMatchEquals_Never(ifNoneMatch, etag) == FALSE

\* ifNoneMatch && metadata.etag && ifNoneMatch === metadata.etag
ifNoneMatchEquals(ifNoneMatch, etag) ==
    Truthy(ifNoneMatch) /\ Truthy(etag) /\ ifNoneMatch.str = etag.str

\* serveContent(reply, cacheEntry, request): the reply it sends
serveContent(cacheEntry, request) ==
    LET content  == cacheEntry.content
        metadata == cacheEntry.metadata
        h0 == [NoHeaders EXCEPT !.contentType = H(metadata.contentType),
                                !.cacheControl = H(metadata.cacheControl),
                                !.xCache = H("HIT"),
                                !.etag = IF Truthy(metadata.etag)
                                         THEN H(metadata.etag.str) ELSE NoH,
                                !.lastModified = IF metadata.lastModified.present
                                                 THEN H(metadata.lastModified.v) ELSE NoH]
        ifNoneMatch     == request.headers.ifNoneMatch
        ifModifiedSince == request.headers.ifModifiedSince
        range           == request.headers.range
        acceptEncoding  == IF Truthy(request.headers.acceptEncoding)
                           THEN request.headers.acceptEncoding.str ELSE <<>>
        isCompressible  == isCompressibleType(metadata.contentType)
    IN
    IF ifNoneMatchEquals(ifNoneMatch, metadata.etag)
    THEN Reply(304, h0, EmptyBody)
    ELSE IF /\ ifModifiedSince.present /\ metadata.lastModified.present
            /\ NumLe(metadata.lastModified.v, ifModifiedSince.v)
    THEN Reply(304, h0, EmptyBody)
    ELSE IF Truthy(range)
    THEN LET parts == Split(RemoveFirst(range.str, BytesEq), "-")
             start == parseInt(parts[1])
             end   == IF Len(parts) > 1 /\ Len(parts[2]) > 0
                      THEN parseInt(parts[2]) ELSE Num(Len(content) - 1)
             chunkSize == NumAdd(NumSub(end, start), Num(1))
         IN Reply(206,
                  [h0 EXCEPT !.contentRange =
                                 H(BytesSp \o NumberToStr(start) \o <<"-">> \o NumberToStr(end)
                                   \o <<"/">> \o NumToStr(Len(content))),
                             !.acceptRanges = H("bytes"),
                             !.contentLength = H(chunkSize)],
                  Buffer(BufferSlice(content, start, NumAdd(end, Num(1)))))
    ELSE IF isCompressible /\ config.brotli /\ Includes(acceptEncoding, EncBr)
    THEN LET compressed == Compressed("br", content)
         IN Reply(200, [h0 EXCEPT !.contentEncoding = H("br"),
                                  !.contentLength = H(Num(Len(compressed))),
                                  !.vary = H("Accept-Encoding")],
                  Buffer(compressed))
    ELSE IF isCompressible /\ config.gzip /\ Includes(acceptEncoding, EncGzip)
    THEN LET compressed == Compressed("gzip", content)
         IN Reply(200, [h0 EXCEPT !.contentEncoding = H("gzip"),
                                  !.contentLength = H(Num(Len(compressed))),
                                  !.vary = H("Accept-Encoding")],
                  Buffer(compressed))
    ELSE Reply(200, [h0 EXCEPT !.contentLength = H(Num(Len(content)))], Buffer(content))

---------------------------------------------------------------------------
(* The origin: src/origin/routes/files.js, upload.js and src/shared/database.js *)

\* purged is history: the highest version a purge that answered has written
NoFile == [exists |-> FALSE, isPublic |-> TRUE, version |-> 0, purged |-> 0]

\* the stored bytes, the mime type and the modification time of an uploaded file
FileContent(id) == <<CharCode(Head(id)), 1, 2>>
FileMime(id) == IF id = <<"a">> THEN TextPlain ELSE ImagePng
FileMtime(id) == BootTime - TickMs

\* getFileById(id): the row, or undefined
getFileById(id) == IF id \in FileIds /\ files[id].exists THEN files[id] ELSE Null

\* generateETag(content): the quoted hex digest of the content, taken to be
\* collision free and modelled by the hex encoding of the bytes
RECURSIVE HexOfBytes(_)
HexOfBytes(bs) == IF Len(bs) = 0 THEN <<>> ELSE HexByte(Head(bs)) \o HexOfBytes(Tail(bs))

generateETag(content) == <<"\"">> \o HexOfBytes(content) \o <<"\"">>

\* new Date(ms).toUTCString() read back by new Date(s).getTime(): whole seconds
HttpDate(ms) == Num(Seconds(ms) * MsPerSec)

\* GET /api/files/:id as the edge calls it
originMetadata(id) ==
    IF getFileById(id) = Null THEN [status |-> 404]
    ELSE [status |-> 200, data |-> [id |-> id, isPublic |-> files[id].isPublic,
                                    version |-> files[id].version]]

\* GET /api/files/:id/download as the edge calls it, without conditional or
\* range headers
originDownload(id) ==
    IF getFileById(id) = Null THEN [status |-> 404]
    ELSE LET content == FileContent(id) IN
         [status |-> 200, data |-> content,
          headers |-> [contentType |-> FileMime(id),
                       contentLength |-> H(Num(Len(content))),
                       etag |-> Str(generateETag(content)),
                       lastModified |-> H(HttpDate(FileMtime(id))),
                       cacheControl |-> H("public, max-age=31536000, immutable")]]

\* POST /api/upload: a new row at version 1; a private file gets a signed URL
Upload(id, isPublic) ==
    /\ ~files[id].exists
    /\ files' = [files EXCEPT ![id] = [exists |-> TRUE, isPublic |-> isPublic, version |-> 1,
                                       purged |-> 0]]
    /\ issued' = IF isPublic THEN issued
                 ELSE issued \cup {Issue(id, config.signedUrlExpiry)}
    /\ reply' = NoReply
    /\ UNCHANGED <<config, now, cache, hist, useOrder, lastOp, reqs, sig>>

---------------------------------------------------------------------------
(* The edge: GET /cdn/:file_id, src/edge/routes/cdn.js                     *)

\* the requests in flight
InFlight == BagToSet(reqs)


\* s and t differ by one substituted, inserted or deleted character
OneEdit(s, t) ==
    \/ /\ Len(s) = Len(t)
       /\ Cardinality({i \in 1..Len(s) : s[i] # t[i]}) = 1
    \/ /\ Len(t) = Len(s) + 1
       /\ \E i \in 1..Len(t) : SubSeq(t, 1, i - 1) \o SubSeq(t, i + 1, Len(t)) = s
    \/ /\ Len(s) = Len(t) + 1
       /\ \E i \in 1..Len(s) : SubSeq(s, 1, i - 1) \o SubSeq(s, i + 1, Len(s)) = t

\* history of a request's signed-URL check: whether the query carried both
\* parameters, how the check ended, and how the request relates to the URLs
\* generated so far
AuthOf(file_id, query) ==
    LET carried == query.expires.present /\ query.signature.present
        checked == Truthy(query.expires) /\ Truthy(query.signature)
        valid   == verifySignedUrl(file_id, parseInt(query.expires.str),
                                   query.signature.str, now)
        same(u) == <<file_id = u.fileId, query.expires.str = NumToStr(u.expires),
                     query.signature.str = u.signature>>
    IN [carried |-> carried,
        verdict |-> IF ~checked THEN "skipped" ELSE IF valid THEN "ok" ELSE "failed",
        exact   |-> carried /\ \E u \in issued : same(u) = <<TRUE, TRUE, TRUE>>,
        edited  |-> carried /\ \E u \in issued :
                       \/ /\ same(u) = <<FALSE, TRUE, TRUE>>
                          /\ OneEdit(u.fileId, file_id)
                       \/ /\ same(u) = <<TRUE, FALSE, TRUE>>
                          /\ OneEdit(NumToStr(u.expires), query.expires.str)
                       \/ /\ same(u) = <<TRUE, TRUE, FALSE>>
                          /\ OneEdit(u.signature, query.signature.str)]

\* no download was requested from the origin. metaFetches and contentFetches
\* are history, the requests this request sent to the origin; so is target,
\* the id the download asked for
NoOrigin == [asked |-> FALSE, status |-> 0, metaFetches |-> 0, contentFetches |-> 0,
             target |-> <<>>]

\* the reply of a request with its history: how the signature check ended,
\* whether the cache answered, what the origin answered to the download and
\* what the set found
Done(request, auth, res, hit, origin, stored) ==
    [pc |-> "done", file_id |-> request.file_id, auth |-> auth, res |-> res,
     hit |-> hit, origin |-> origin, stored |-> stored]

\* the handler up to its first await: the signature check, the cache lookup and,
\* on a hit, the reply; on a miss the metadata request is sent
ReqStart(request) ==
    LET file_id  == request.file_id
        auth     == AuthOf(file_id, request.query)
        cacheKey == generateCacheKey(file_id, DefaultVersion)
        cached   == getFromCacheValue(cache, cacheKey, now)
    IN
    /\ BagCardinality(reqs) < MaxRequests
    /\ IF auth.verdict = "failed"
       THEN /\ reply' = Done(request, auth,
                             Reply(403, NoHeaders, ErrorBody("Invalid or expired signature")),
                             FALSE, NoOrigin, "none")
            /\ UNCHANGED <<cache, reqs>>
       ELSE /\ cache' = getFromCacheState(cache, cacheKey, now)
            /\ IF cached # Null
               THEN /\ reply' = Done(request, auth, serveContent(cached, request), TRUE, NoOrigin, "none")
                    /\ reqs' = reqs
               ELSE /\ reqs' = reqs (+) SetToBag({[pc |-> "meta", file_id |-> file_id,
                                                     auth |-> auth, metaFetches |-> 1,
                                                     contentFetches |-> 0]})
                    /\ reply' = NoReply
    /\ UNCHANGED <<config, now, hist, useOrder, lastOp, files, issued, sig>>

\* the id of a download whose metadata did not arrive, for a handler that
\* reads fileMetadata.id whether or not there is metadata
UndefinedId == <<"undefined">>

\* mutant: no fallback to the id of the request
downloadRequest_NoFallback(q, fileMetadata) ==
    [pc |-> "download", file_id |-> q.file_id, auth |-> q.auth,
     target |-> IF fileMetadata # Null THEN fileMetadata.id ELSE UndefinedId,
     metaFetches |-> q.metaFetches, contentFetches |-> q.contentFetches + 1]

\* mutant: the metadata is fetched a second time before the download
downloadRequest_MetaTwice(q, fileMetadata) ==
    [pc |-> "download", file_id |-> q.file_id, auth |-> q.auth,
     target |-> IF fileMetadata # Null THEN fileMetadata.id ELSE q.file_id,
     metaFetches |-> q.metaFetches + 1, contentFetches |-> q.contentFetches + 1]

\* mutant: without metadata the handler asks for the metadata again
downloadRequest_RetryMeta(q, fileMetadata) ==
    IF fileMetadata = Null THEN q
    ELSE [pc |-> "download", file_id |-> q.file_id, auth |-> q.auth,
          target |-> fileMetadata.id,
          metaFetches |-> q.metaFetches, contentFetches |-> q.contentFetches + 1]

\* the download the handler requests once the metadata request has ended, with
\* fileMetadata the metadata or undefined: downloadUrl is built from
\* fileMetadata.id when there is metadata and from file_id otherwise
downloadRequest(q, fileMetadata) ==
    [pc |-> "download", file_id |-> q.file_id, auth |-> q.auth,
     target |-> IF fileMetadata # Null THEN fileMetadata.id ELSE q.file_id,
     metaFetches |-> q.metaFetches, contentFetches |-> q.contentFetches + 1]

\* what the step that ends the metadata request leaves behind, no reply but
\* the log's 'Metadata fetch failed, trying direct download' or its absence: the
\* id of the request and the metadata received, undefined when none was
MetaEnded(file_id, fileMetadata) ==
    [pc |-> "meta-ended", file_id |-> file_id, ok |-> fileMetadata # Null,
     id |-> IF fileMetadata # Null THEN fileMetadata.id ELSE <<>>]

\* the metadata request returns or fails; either way the download is requested,
\* by the id of the metadata when there is one
ReqMeta(q, arrives) ==
    LET file_id  == q.file_id
        response == originMetadata(file_id)
        hasMeta  == arrives /\ response.status = 200
        fileMetadata == IF hasMeta THEN response.data ELSE Null
    IN
    /\ q \in InFlight /\ q.pc = "meta"
    /\ reqs' = (reqs (-) SetToBag({q})) (+) SetToBag({downloadRequest(q, fileMetadata)})
    /\ reply' = MetaEnded(file_id, fileMetadata)
    /\ UNCHANGED <<config, now, cache, hist, useOrder, lastOp, files, issued, sig>>

\* an origin error that answers every failed fetch alike
originError_Always502(status) ==
    Reply(502, NoHeaders, ErrorBody("Failed to fetch from origin"))

\* the catch of the origin fetch: the reply to a download that was rejected
\* with the given status, or with none (status 0: network error, timeout)
originError(status) ==
    IF status = 404 THEN Reply(404, NoHeaders, ErrorBody("File not found"))
    ELSE Reply(502, NoHeaders, ErrorBody("Failed to fetch from origin"))

\* how a download request can end: the origin's answer arrives, a 304 or a 5xx
\* arrives in its place, or nothing arrives (network error, timeout)
Outcomes == {"answer", "notModified", "serverError", "noResponse"}

\* the download returns or fails: a 200 is stored in the cache and served
ReqDownload(q, outcome, headers) ==
    LET file_id  == q.file_id
        request  == [file_id |-> file_id, headers |-> headers]
        cacheKey == generateCacheKey(file_id, DefaultVersion)
        response == IF outcome = "answer" THEN originDownload(q.target)
                    ELSE IF outcome = "notModified" THEN [status |-> 304]
                    ELSE IF outcome = "serverError" THEN [status |-> 500]
                    ELSE [status |-> 0]
        \* fetched is history: the version of the row when the download was served
        cacheEntry == [fetched |-> files[q.target].version,
                       content |-> response.data,
                       metadata |-> [contentType |-> response.headers.contentType,
                                     etag |-> response.headers.etag,
                                     lastModified |-> response.headers.lastModified,
                                     contentLength |-> response.headers.contentLength,
                                     cacheControl |->
                                         IF response.headers.cacheControl.present
                                         THEN response.headers.cacheControl.v
                                         ELSE "public, max-age=31536000"]]
        finish(res) == Done(request, q.auth, res, FALSE,
                            [asked |-> TRUE, status |-> response.status,
                             metaFetches |-> q.metaFetches,
                             contentFetches |-> q.contentFetches,
                             target |-> q.target],
                            IF response.status = 200 THEN SetKind(cache, cacheKey) ELSE "none")
    IN
    /\ q \in InFlight /\ q.pc = "download"
    /\ IF response.status = 200
       THEN /\ cache' = setInCache(cache, cacheKey, cacheEntry, now)
            /\ reply' = finish(serveContent(cacheEntry, request))
       ELSE /\ cache' = cache
            /\ reply' = finish(IF response.status = 304
                                THEN Reply(304, NoHeaders, EmptyBody)
                                ELSE originError(response.status))
    /\ reqs' = reqs (-) SetToBag({q})
    /\ UNCHANGED <<config, now, hist, useOrder, lastOp, files, issued, sig>>

\* the answers of the edge's purge routes; found is history: whether the call
\* found an entry to remove
PurgeReply(file_id, found) ==
    [pc |-> "edge-purged", status |-> 200, success |-> TRUE, fileId |-> file_id,
     found |-> found]

PurgeAllReply(found) ==
    [pc |-> "edge-purged-all", status |-> 200, success |-> TRUE, found |-> found]

\* POST /api/purge/:file_id on the edge
EdgePurge(file_id) ==
    /\ cache' = deleteFromCache(cache, generateCacheKey(file_id, DefaultVersion))
    /\ reply' = PurgeReply(file_id, generateCacheKey(file_id, DefaultVersion) \in KeysOf(cache))
    /\ UNCHANGED <<config, now, hist, useOrder, lastOp, files, issued, reqs, sig>>

\* POST /api/purge-all on the edge
EdgePurgeAll ==
    /\ cache' = clearCache(cache)
    /\ reply' = PurgeAllReply(cache # <<>>)
    /\ UNCHANGED <<config, now, hist, useOrder, lastOp, files, issued, reqs, sig>>

---------------------------------------------------------------------------
(* The requests the clients send                                           *)

NoQuery == [expires |-> Absent, signature |-> Absent]

NoReqHeaders ==
    [ifNoneMatch |-> Absent, ifModifiedSince |-> [present |-> FALSE],
     range |-> Absent, acceptEncoding |-> Absent]

\* request headers: none, a matching If-None-Match, a Range, an Accept-Encoding
HeaderInputs ==
    {NoReqHeaders,
     [NoReqHeaders EXCEPT !.ifNoneMatch = Str(generateETag(FileContent(<<"a">>)))],
     [NoReqHeaders EXCEPT !.range = Str(BytesEq \o <<"0", "-", "1">>)],
     [NoReqHeaders EXCEPT !.acceptEncoding = Str(EncBr)]}

Request(file_id, query, headers) ==
    [file_id |-> file_id, query |-> query, headers |-> headers]

\* the characters an edit puts into a string
EditChars == {"0", "x"}

\* the strings one substitution, insertion or deletion away from s
Edits(s) ==
    ({[s EXCEPT ![i] = ch] : i \in 1..Len(s), ch \in EditChars}
     \cup {SubSeq(s, 1, i) \o <<ch>> \o SubSeq(s, i + 1, Len(s)) :
              i \in 0..Len(s), ch \in EditChars}
     \cup {SubSeq(s, 1, i - 1) \o SubSeq(s, i + 1, Len(s)) : i \in 1..Len(s)})
    \ {s}

\* requests without a signature, and with a signature that cannot verify
PlainRequests ==
    {Request(id, NoQuery, h) : id \in FileIds, h \in HeaderInputs}
        \cup {Request(id, [expires |-> Str(<<"1">>), signature |-> Str(<<"0">>)], NoReqHeaders) :
                 id \in FileIds}

\* requests built from the generated URLs: as generated, with one character of
\* the id, of expires or of the signature changed, with an empty parameter, and
\* with no parameter at all (the path parameter of a matched route is not empty)
SignedRequests ==
    LET q(e, g) == [expires |-> Str(e), signature |-> Str(g)]
        ranged  == [NoReqHeaders EXCEPT !.range = Str(BytesEq \o <<"0", "-", "1">>)]
        exact   == {<<u.fileId, q(NumToStr(u.expires), u.signature)>> : u \in issued}
        changed == UNION {
            {<<id, q(NumToStr(u.expires), u.signature)>> :
                 id \in {x \in Edits(u.fileId) : Len(x) > 0}}
            \cup {<<u.fileId, q(e, u.signature)>> : e \in Edits(NumToStr(u.expires))}
            \cup {<<u.fileId, q(NumToStr(u.expires), g)>> : g \in Edits(u.signature)}
            \cup {<<u.fileId, q(<<>>, u.signature)>>,
                  <<u.fileId, q(NumToStr(u.expires), <<>>)>>}
            : u \in issued}
        plain   == {<<id, NoQuery>> : id \in FileIds}
    IN {Request(b[1], b[2], h) : b \in exact \cup plain, h \in {NoReqHeaders, ranged}}
       \cup {Request(b[1], b[2], NoReqHeaders) : b \in changed}

---------------------------------------------------------------------------
(* The edge and the origin together                                        *)

\* a whole second passes
TickSecond ==
    /\ now + MsPerSec <= MaxNow
    /\ now' = now + MsPerSec
    /\ reply' = NoReply
    /\ UNCHANGED <<config, cache, hist, useOrder, lastOp, files, issued, reqs, sig>>

\* the cache switched on with each size the files can overflow, and the cache
\* switched off
EdgeConfigs ==
    {c \in Configs(BOOLEAN, {MaxExpiresIn}) :
        /\ c.ttl = 2 * TickMs
        /\ c.maxSize < Cardinality(FileIds)
        /\ ~c.memoryEnabled => c.maxSize = 1}

Init ==
    /\ config \in EdgeConfigs
    /\ now = BootTime
    /\ cache = <<>>
    /\ hist = [k \in CacheKeys |-> NoHist]
    /\ useOrder = <<>>
    /\ lastOp = NoOp
    /\ files = [id \in FileIds |-> NoFile]
    /\ issued = {}
    /\ reqs = EmptyBag
    /\ reply = NoReply
    /\ sig = NoSig

\* the ids in the order the uploads draw them
UploadOrder == <<<<"a">>, <<"b">>, <<"c">>>>

NextId == {UploadOrder[i] : i \in {j \in 1..Len(UploadOrder) :
                                      \A k \in 1..(j - 1) : files[UploadOrder[k]].exists}}

\* the requests that start: the handler reads the request headers in
\* serveContent alone, so up to its first await they count only for a request
\* whose key the cache holds
StartRequests ==
    {request \in PlainRequests :
        \/ request.headers = NoReqHeaders
        \/ generateCacheKey(request.file_id, DefaultVersion) \in KeysOf(cache)}

Next ==
    \/ TickSecond
    \/ \E id \in NextId : Upload(id, TRUE)
    \/ \E request \in StartRequests : ReqStart(request)
    \/ \E q \in InFlight, arrives \in BOOLEAN : ReqMeta(q, arrives)
    \/ \E q \in InFlight, outcome \in Outcomes :
          \E headers \in (IF outcome = "answer" THEN HeaderInputs ELSE {NoReqHeaders}) :
              ReqDownload(q, outcome, headers)
    \/ \E id \in FileIds : EdgePurge(id)
    \/ EdgePurgeAll

Spec == Init /\ [][Next]_vars

---------------------------------------------------------------------------
(* Properties of the cache behind the requests                            *)

\* C1: with the cache switched on and maxSize at least 1, the cache never holds
\* more than maxSize entries, whatever requests and purges ran and however the
\* sets of the cache-miss requests interleaved
C1_SizeAtMostMaxSize ==
    (config.memoryEnabled /\ config.maxSize >= 1) => Len(cache) <= config.maxSize

\* a cache-miss request stored its download in a cache that was at capacity,
\* with another request in flight
C1_Witness ==
    /\ config.memoryEnabled /\ config.maxSize > 1
    /\ reply.pc = "done" /\ reply.stored = "set-full"
    /\ Len(cache) = config.maxSize
    /\ reqs # EmptyBag

\* C5: with the cache switched off, get finds nothing for any key, set, delete
\* and clear change nothing, and every request that passes the signature check
\* is answered from a download of the origin, never from the cache, with the
\* file whenever the origin answers 200
C5_DisabledCacheIsTransparent ==
    ~config.memoryEnabled =>
        /\ cache = <<>>
        /\ \A key \in CacheKeys :
              /\ getFromCacheValue(cache, key, now) = Null
              /\ getFromCacheState(cache, key, now) = cache
              /\ \A value \in CacheValues : setInCache(cache, key, value, now) = cache
              /\ deleteFromCache(cache, key) = cache
        /\ clearCache(cache) = cache
        /\ (reply.pc = "done" /\ reply.auth.verdict # "failed") =>
              /\ ~reply.hit
              /\ reply.origin.asked
              /\ reply.stored = "none"
              /\ reply.origin.status = 200 => reply.res.status \in {200, 206, 304}

\* with the cache switched off a request was answered with the file while
\* another was in flight
C5_Witness ==
    /\ ~config.memoryEnabled
    /\ reply.pc = "done" /\ reply.origin.status = 200 /\ reply.res.status = 200
    /\ reqs # EmptyBag

\* C11: a cache miss whose download the origin answers with 404 ends with 404,
\* and one whose download fails in any other way (no answer, a status other
\* than 200, 304 and 404) ends with 502
C11_FailedFetchIs404Or502 ==
    (reply.pc = "done" /\ reply.origin.asked /\ reply.origin.status \notin {200, 304}) =>
        /\ ~reply.hit
        /\ reply.res.status = (IF reply.origin.status = 404 THEN 404 ELSE 502)
        /\ reply.stored = "none"

\* a download of a file the origin does not have was answered 404
C11_Witness ==
    /\ reply.pc = "done" /\ reply.origin.asked
    /\ reply.origin.status = 404 /\ reply.res.status = 404

\* the entries held under the key of an id whose ttl has not elapsed
LiveEntries(id) ==
    {i \in 1..Len(cache) : /\ cache[i].key = generateCacheKey(id, DefaultVersion)
                           /\ now - cache[i].start <= config.ttl}

\* C12: with the cache switched on, a download the origin answers 200 is stored
\* under the key of the requested id with the bytes and headers of the answer;
\* a request for an id whose entry is held and has not outlived its ttl sends
\* nothing to the origin, and a request answered from the cache is answered
\* from the entry held under the key of its id
C12_StoredThenServedFromCache ==
    /\ [](config.memoryEnabled /\ reply.pc = "done" /\ reply.origin.status = 200 =>
             \E i \in 1..Len(cache) :
                /\ cache[i].key = generateCacheKey(reply.file_id, DefaultVersion)
                /\ cache[i].start = now
                /\ cache[i].value.content = originDownload(reply.file_id).data
                /\ cache[i].value.metadata.etag = originDownload(reply.file_id).headers.etag
                /\ cache[i].value.metadata.contentType
                      = originDownload(reply.file_id).headers.contentType)
    /\ [][config.memoryEnabled =>
            /\ \A q \in BagToSet(reqs') :
                  (q.pc = "meta" /\ CopiesIn(q, reqs') > CopiesIn(q, reqs)) =>
                      LiveEntries(q.file_id) = {}
            /\ (reply'.pc = "done" /\ reply'.hit) =>
                  /\ ~reply'.origin.asked /\ reqs' = reqs
                  /\ \E i \in LiveEntries(reply'.file_id) :
                        /\ reply'.res.headers.etag = H(cache[i].value.metadata.etag.str)
                        /\ reply'.res.headers.contentType
                              = H(cache[i].value.metadata.contentType)]_vars

\* a request was answered from the cache with the file
C12_Witness ==
    /\ config.memoryEnabled
    /\ reply.pc = "done" /\ reply.hit /\ reply.res.status = 200
    /\ reply.res.body = Buffer(FileContent(reply.file_id))

\* C20: the edge's purge routes answer success whether or not the key is
\* cached and the cache switched on; after /purge/:id the key of the id is not
\* in the cache and every other entry is as it was; after /purge-all the cache
\* is empty; a second call of either changes nothing
C20_EdgePurgeRemovesAndSucceeds ==
    [][/\ \A id \in FileIds :
             EdgePurge(id) =>
                LET key == generateCacheKey(id, DefaultVersion) IN
                /\ reply'.status = 200 /\ reply'.success
                /\ key \notin KeysOf(cache')
                /\ cache' = SelectSeq(cache, LAMBDA e : e.key # key)
                /\ deleteFromCache(cache', key) = cache'
       /\ EdgePurgeAll =>
             /\ reply'.status = 200 /\ reply'.success
             /\ cache' = <<>>
             /\ clearCache(cache') = cache']_vars

\* a purge removed the entry of one id and left another entry in the cache
C20_Witness ==
    /\ reply.pc = "edge-purged" /\ reply.found
    /\ Len(cache) > 0

\* C27: every 200, 206 and 304 reply of GET /cdn/:id carries Cache-Control, and
\* ETag and Last-Modified when the edge has them in an entry; the 304 that
\* passes on a 304 of the origin's download is one of these replies
C27_ValidatorsOnEveryReply ==
    (reply.pc = "done" /\ reply.res.status \in {200, 206, 304}) =>
        /\ reply.res.headers.cacheControl.present
        /\ (reply.hit \/ reply.origin.status = 200) =>
              /\ reply.res.headers.etag
                    = H(originDownload(reply.file_id).headers.etag.str)
              /\ reply.res.headers.lastModified
                    = originDownload(reply.file_id).headers.lastModified

\* C28: a reply of GET /cdn/:id carries X-Cache: HIT exactly when its entry was
\* read from the cache and the request asked the origin for nothing
C28_HitLabelMeansCacheHit ==
    reply.pc = "done" =>
        (reply.res.headers.xCache = H("HIT")) = (reply.hit /\ ~reply.origin.asked)

\* C29: one request sends the origin at most one metadata request and at most
\* one download request, and none when the cache answers; a download that
\* fails ends the request with 404 or 502 after that one request
C29_AtMostOneFetchEach ==
    /\ \A q \in InFlight :
          q.pc \in {"meta", "download"} =>
              /\ q.metaFetches = 1
              /\ q.contentFetches = (IF q.pc = "meta" THEN 0 ELSE 1)
    /\ reply.pc = "done" =>
          /\ reply.origin.metaFetches <= 1 /\ reply.origin.contentFetches <= 1
          /\ reply.hit =>
                /\ ~reply.origin.asked
                /\ reply.origin.metaFetches = 0 /\ reply.origin.contentFetches = 0
          /\ (reply.origin.asked /\ reply.origin.status \notin {200, 304}) =>
                /\ reply.origin.contentFetches = 1
                /\ reply.res.status \in {404, 502}

\* a download got no answer: the request ended with 502 after one metadata and
\* one download request, and nothing of it is left in flight
C29_Witness ==
    /\ reply.pc = "done" /\ reply.origin.asked /\ reply.origin.status = 0
    /\ reply.res.status = 502
    /\ reply.origin.metaFetches = 1 /\ reply.origin.contentFetches = 1
    /\ reqs = EmptyBag

\* C30: a metadata request that fails does not end the request: the download is
\* requested by the id of the request, and by the id in the metadata when the
\* metadata arrived; the reply follows from the download's answer alone
C30_MetadataFailureFallsBack ==
    /\ reply.pc = "meta-ended" =>
          \E d \in InFlight :
              /\ d.pc = "download" /\ d.file_id = reply.file_id
              /\ d.target = (IF reply.ok THEN reply.id ELSE reply.file_id)
    /\ (reply.pc = "done" /\ reply.origin.asked) =>
          /\ reply.origin.target = reply.file_id
          /\ reply.res.status \in
                (CASE reply.origin.status = 200 -> {200, 206, 304}
                   [] reply.origin.status = 304 -> {304}
                   [] reply.origin.status = 404 -> {404}
                   [] OTHER -> {502})

\* the metadata of an uploaded file did not arrive and its download is in flight
C30_Witness ==
    /\ reply.pc = "meta-ended" /\ ~reply.ok
    /\ files[reply.file_id].exists
    /\ \E d \in InFlight : d.pc = "download" /\ d.target = reply.file_id

\* C31: concurrent misses on one key are not coalesced: every request that saw
\* the miss ends with its own download request and, on a 200, its own set, also
\* when another request filled the key meanwhile; the cache then holds one entry
\* for the key, the one set last
C31_MissesAreNotCoalesced ==
    /\ \A i, j \in 1..Len(cache) : cache[i].key = cache[j].key => i = j
    /\ (reply.pc = "done" /\ ~reply.hit /\ reply.auth.verdict # "failed") =>
          /\ reply.origin.asked /\ reply.origin.contentFetches = 1
          /\ (reply.origin.status = 200 /\ config.memoryEnabled) =>
                /\ reply.stored \in {"set-new", "set-full", "set-over"}
                /\ cache # <<>>
                /\ cache[Len(cache)].key = generateCacheKey(reply.file_id, DefaultVersion)
                /\ cache[Len(cache)].start = now

\* a request that had missed set a key that a concurrent request had filled
\* in the meantime, and its entry replaced that one
C31_Witness ==
    /\ reply.pc = "done" /\ ~reply.hit /\ reply.origin.status = 200
    /\ reply.origin.contentFetches = 1 /\ reply.stored = "set-over"
    /\ cache[Len(cache)].start = now

\* the edge has just processed a purge that covers the id
JustPurged(id) ==
    \/ reply.pc = "edge-purged" /\ reply.fileId = id
    \/ reply.pc = "edge-purged-all"

\* C32: once the edge has processed a purge of an id, the cache does not come to
\* hold an entry of that id from a download that was in flight while the purge
\* ran: the step after the purge does not store such a download
C32_NoFillFromFetchBeforePurge ==
    [][\A id \in FileIds :
          (/\ JustPurged(id)
           /\ \E q \in InFlight : q.pc = "download" /\ q.file_id = id)
          => ~(/\ reply'.pc = "done" /\ reply'.file_id = id
               /\ reply'.origin.asked /\ reply'.stored # "none"
               /\ generateCacheKey(id, DefaultVersion) \in KeysOf(cache'))
      ]_vars

---------------------------------------------------------------------------
(* Every request ends: the handler with origin calls that all end, each by  *)
(* an answer, an error or its timeout (5000 ms, 30000 ms)                   *)

\* the ids requested: a is uploaded, b never is
LiveIds == {<<"a">>, <<"b">>}

\* where the request for id stands: "idle" when none is in flight
Stage(id) ==
    IF \E q \in InFlight : q.file_id = id
    THEN (CHOOSE q \in InFlight : q.file_id = id).pc
    ELSE "idle"

\* the metadata request of the request for id ends
MetaStep(id) ==
    \E q \in InFlight, arrives \in BOOLEAN : q.file_id = id /\ ReqMeta(q, arrives)

\* the download request of the request for id ends
DownloadStep(id) ==
    \E q \in InFlight, outcome \in Outcomes :
        \E headers \in (IF outcome = "answer" THEN HeaderInputs ELSE {NoReqHeaders}) :
            q.file_id = id /\ ReqDownload(q, outcome, headers)

\* one request per id at a time, so that the request that ends is the one
\* that started
NextLive ==
    \/ TickSecond
    \/ \E id \in NextId \cap {<<"a">>} : Upload(id, TRUE)
    \/ \E request \in StartRequests :
          /\ request.file_id \in LiveIds
          /\ Stage(request.file_id) = "idle"
          /\ ReqStart(request)
    \/ \E id \in LiveIds : MetaStep(id)
    \/ \E id \in LiveIds : DownloadStep(id)

\* axios ends every call: by the origin's answer, by an error, or by timeout
OriginCallsEnd ==
    \A id \in LiveIds : WF_vars(MetaStep(id)) /\ WF_vars(DownloadStep(id))

SpecLive == Init /\ [][NextLive]_vars /\ OriginCallsEnd

\* the statuses of GET /cdn/:file_id
EdgeStatuses == {200, 206, 304, 403, 404, 500, 502}

\* C35: every request ends and is answered once, with one of the statuses of the
\* route: a request waiting for the origin leaves that stage, the stages follow
\* in the order signature check, lookup, metadata and download, store, reply,
\* and the reply is the step in which the request ends
C35_EveryRequestEnds ==
    /\ [](reply.pc = "done" => reply.res.status \in EdgeStatuses)
    /\ [][\A id \in LiveIds :
            /\ Stage(id)' # Stage(id) =>
                  <<Stage(id), Stage(id)'>> \in
                      {<<"idle", "meta">>, <<"meta", "download">>, <<"download", "idle">>}
            /\ (Stage(id) = "idle" /\ Stage(id)' = "meta") =>
                  /\ reply'.pc # "done"
                  /\ getFromCacheValue(cache, generateCacheKey(id, DefaultVersion), now) = Null
            /\ (Stage(id) # "idle" /\ Stage(id)' # "idle") =>
                  ~(reply'.pc = "done" /\ reply'.file_id = id)
            /\ (Stage(id) = "download" /\ Stage(id)' = "idle") =>
                  /\ reply'.pc = "done" /\ reply'.file_id = id
                  /\ reply'.origin.asked
                  /\ reply'.origin.metaFetches = 1 /\ reply'.origin.contentFetches = 1
                  /\ reply'.stored # "none" => reply'.origin.status = 200
            /\ (reply'.pc = "done" /\ reply'.file_id = id /\ Stage(id) = "idle") =>
                  /\ Stage(id)' = "idle"
                  /\ ~reply'.origin.asked /\ reply'.stored = "none"
                  /\ reply'.res.status = 403 => (~reply'.hit /\ cache' = cache)
                  /\ reply'.res.status # 403 => reply'.hit
       ]_vars
    /\ \A id \in LiveIds :
          (Stage(id) # "idle") ~> (reply.pc = "done" /\ reply.file_id = id)

\* a request that waited for the metadata and for the download was answered
\* while another one was still waiting
C35_Witness ==
    /\ reply.pc = "done" /\ reply.origin.asked
    /\ reply.origin.metaFetches = 1 /\ reply.origin.contentFetches = 1
    /\ reply.res.status \in EdgeStatuses
    /\ \E id \in LiveIds \ {reply.file_id} : Stage(id) = "download"

---------------------------------------------------------------------------
(* One client with signed URLs                                             *)

InitAuth ==
    /\ config \in Configs({TRUE}, {0})
    /\ config.maxSize = 1 /\ config.ttl = 2 * TickMs
    /\ now = BootTime
    /\ cache = <<>>
    /\ hist = [k \in CacheKeys |-> NoHist]
    /\ useOrder = <<>>
    /\ lastOp = NoOp
    /\ files = [id \in FileIds |-> NoFile]
    /\ issued = {}
    /\ reqs = EmptyBag
    /\ reply = NoReply
    /\ sig = NoSig

\* the ids uploaded in these runs
AuthIds == {<<"a">>, <<"b">>}

NextAuth ==
    \/ TickSecond
    \/ \E id \in NextId \cap AuthIds : Upload(id, FALSE)
    \/ reqs = EmptyBag /\ \E request \in SignedRequests : ReqStart(request)
    \/ \E q \in InFlight, arrives \in BOOLEAN : ReqMeta(q, arrives)
    \/ \E q \in InFlight, outcome \in Outcomes, headers \in HeaderInputs :
          ReqDownload(q, outcome, headers)

SpecAuth == InitAuth /\ [][NextAuth]_vars

---------------------------------------------------------------------------
(* Signed requests at the edge                                             *)

\* the signature checks of the requests in flight and of the request answered last
Checks ==
    {q.auth : q \in InFlight}
        \cup (IF reply.pc = "done" THEN {reply.auth} ELSE {})

\* C8: a request whose id, expires or signature is one character away from a
\* generated URL is answered 403
C8_EditedUrlIsForbidden ==
    /\ \A q \in InFlight : ~q.auth.edited
    /\ (reply.pc = "done" /\ reply.auth.edited) => reply.res.status = 403

\* C9: a request carrying both parameters, whatever their values, has the
\* verifier run, and a failed verification ends in a 403 with no cache hit and
\* no request to the origin
C9_CarriedParametersAreVerified ==
    /\ \A auth \in Checks : auth.carried => auth.verdict # "skipped"
    /\ \A q \in InFlight : q.auth.verdict # "failed"
    /\ (reply.pc = "done" /\ reply.auth.verdict = "failed") =>
          /\ reply.res.status = 403
          /\ ~reply.hit
          /\ ~reply.origin.asked

\* C10: the bytes of a private file are delivered only to a request whose
\* signature verified
C10_PrivateBytesNeedSignature ==
    LET file == getFileById(reply.file_id) IN
    (reply.pc = "done" /\ reply.res.status \in {200, 206} /\ file # Null /\ ~file.isPublic)
        => reply.auth.verdict = "ok"


\* what a lookup at time t can still return: the entries of c that are not stale
LiveAt(c, t) == SelectSeq(c, LAMBDA e : ~isStale(e, t))

\* c2 holds a key that c1 does not hold, or holds another value under a key
Written(c1, c2) ==
    \E i \in 1..Len(c2) :
        \A j \in 1..Len(c1) : c1[j].key # c2[i].key \/ c1[j].value # c2[i].value

\* the reply of a request that ended 403, 404 or 502, or with the origin's 304
EndedWithoutContent(r) ==
    /\ r.pc = "done"
    /\ \/ r.res.status \in {403, 404, 502}
       \/ r.origin.asked /\ r.origin.status = 304

---------------------------------------------------------------------------
(* The origin's purge: POST /api/admin/purge/:id, src/origin/routes/admin.js *)

\* a new version that is the version read
newVersionOf_NoIncrement(file) == IF file.version = 0 THEN 1 ELSE file.version

\* (file.version || 1) + 1
newVersionOf(file) == (IF file.version = 0 THEN 1 ELSE file.version) + 1

\* updateFile(id, { version }): the row with its version replaced
updateFile(id, version) == [files EXCEPT ![id].version = version]

\* how the notification of the edge can end: the edge purges and answers, the
\* edge purges and its answer does not arrive in time, the edge is not reached
Notifications == {"ok", "timeout", "failed"}

\* a purge answer that reports the failure of the notification
purgeAnswer_FailOnEdgeError(id, newVersion, notified) ==
    IF notified = "ok"
    THEN [pc |-> "purged", file_id |-> id, status |-> 200, success |-> TRUE,
          newVersion |-> newVersion, notified |-> notified]
    ELSE [pc |-> "purged", file_id |-> id, status |-> 500, success |-> FALSE,
          newVersion |-> 0, notified |-> notified]

\* the answer of a purge after its notification ended: the failure is logged
purgeAnswer(id, newVersion, notified) ==
    [pc |-> "purged", file_id |-> id, status |-> 200, success |-> TRUE,
     newVersion |-> newVersion, notified |-> notified]

\* the handler up to its await: the row is read and its version written, with
\* no await in between, and the notification is sent; no row, 404
OriginPurge(id) ==
    LET file == getFileById(id) IN
    /\ BagCardinality(reqs) < MaxRequests
    /\ IF file = Null
       THEN /\ reply' = [pc |-> "purged", file_id |-> id, status |-> 404,
                         success |-> FALSE, newVersion |-> 0, notified |-> "none"]
            /\ UNCHANGED <<files, reqs>>
       ELSE /\ file.version < DefaultVersion + MaxPurges
            /\ files' = updateFile(id, newVersionOf(file))
            /\ reqs' = reqs (+) SetToBag({[pc |-> "notify", file_id |-> id,
                                           newVersion |-> newVersionOf(file)]})
            /\ reply' = NoReply
    /\ UNCHANGED <<config, now, cache, hist, useOrder, lastOp, issued, sig>>

\* the notification ends: the edge's POST /api/purge/:file_id ran or not, and
\* the purge answers
OriginPurgeNotify(q, notified) ==
    /\ q \in InFlight /\ q.pc = "notify"
    /\ cache' = IF notified = "failed" THEN cache
                ELSE deleteFromCache(cache, generateCacheKey(q.file_id, DefaultVersion))
    /\ reqs' = reqs (-) SetToBag({q})
    /\ reply' = purgeAnswer(q.file_id, q.newVersion, notified)
    /\ files' = [files EXCEPT ![q.file_id].purged =
                    IF q.newVersion > @ THEN q.newVersion ELSE @]
    /\ UNCHANGED <<config, now, hist, useOrder, lastOp, issued, sig>>

\* the files the purges are about
PurgeIds == {<<"a">>, <<"b">>}

PurgeRequests == {Request(id, NoQuery, NoReqHeaders) : id \in PurgeIds}

InitPurge ==
    /\ config \in Configs({TRUE}, {MaxExpiresIn})
    /\ config.maxSize = 1 /\ config.ttl = 2 * TickMs
    /\ now = BootTime
    /\ cache = <<>>
    /\ hist = [k \in CacheKeys |-> NoHist]
    /\ useOrder = <<>>
    /\ lastOp = NoOp
    /\ files = [id \in FileIds |-> NoFile]
    /\ issued = {}
    /\ reqs = EmptyBag
    /\ reply = NoReply
    /\ sig = NoSig

NextPurge ==
    \/ TickSecond
    \/ \E id \in NextId \cap PurgeIds : Upload(id, TRUE)
    \/ \E request \in PurgeRequests : ReqStart(request)
    \/ \E q \in InFlight, arrives \in BOOLEAN : ReqMeta(q, arrives)
    \/ \E q \in InFlight, outcome \in Outcomes : ReqDownload(q, outcome, NoReqHeaders)
    \/ \E id \in FileIds : OriginPurge(id)
    \/ \E q \in InFlight, notified \in Notifications : OriginPurgeNotify(q, notified)

SpecPurge == InitPurge /\ [][NextPurge]_vars

\* the purges waiting for their notification to end
Notifying == {q \in InFlight : q.pc = "notify"}

\* C17: a purge of an existing file answers success with the version it wrote,
\* however the notification of the edge ended, and the stored version never
\* falls back below a version a purge wrote
C17_PurgeSucceedsWhateverTheEdgeDoes ==
    /\ \A q \in Notifying : files[q.file_id].version >= q.newVersion
    /\ (reply.pc = "purged" /\ getFileById(reply.file_id) # Null) =>
          /\ reply.status = 200 /\ reply.success
          /\ reply.newVersion > DefaultVersion
          /\ files[reply.file_id].version >= reply.newVersion

\* a purge answered after its notification failed
C17_Witness ==
    /\ reply.pc = "purged" /\ reply.notified = "failed"
    /\ reply.status = 200
    /\ files[reply.file_id].version = reply.newVersion

\* C18: every purge of a file writes the version it read plus one, and no two
\* purges in flight hold the same new version
C18_PurgesWriteDistinctVersions ==
    /\ [](\A q \in Notifying : CopiesIn(q, reqs) = 1)
    /\ [][\A id \in FileIds :
             OriginPurge(id) /\ getFileById(id) # Null =>
                /\ files'[id].version = files[id].version + 1
                /\ \A q \in Notifying : q.file_id = id => q.newVersion < files'[id].version]_vars

\* as many purges of one file in flight as the edge allows, the stored version
\* that many above the first
C18_Witness ==
    \E id \in PurgeIds :
        /\ Cardinality({q \in Notifying : q.file_id = id}) = MaxRequests
        /\ files[id].version = DefaultVersion + MaxRequests

\* C19: after a purge of a file answered success, a request for the file is not
\* answered from an entry the cache stored before that purge wrote its version
C19_PurgedEntryIsNotServed ==
    (reply.pc = "done" /\ reply.hit) =>
        \A i \in 1..Len(cache) :
            cache[i].key = generateCacheKey(reply.file_id, DefaultVersion) =>
                cache[i].value.fetched >= files[reply.file_id].purged

---------------------------------------------------------------------------
(* The version of a file record: PATCH /api/admin/files/:id next to the    *)
(* purges and the edge                                                     *)

\* the bodies a PATCH carries: metadata alone, or isPublic set to a value
PatchBodies ==
    {[hasIsPublic |-> FALSE, isPublic |-> FALSE]}
        \cup {[hasIsPublic |-> TRUE, isPublic |-> b] : b \in BOOLEAN}

\* mutant: the update writes the whole row anew, with the version of an upload
patchFile_ResetsVersion(id, updates) ==
    [files EXCEPT ![id].isPublic = IF updates.hasIsPublic THEN updates.isPublic ELSE @,
                  ![id].version = DefaultVersion]

\* updateFile(id, allowedUpdates): allowedUpdates holds metadata and is_public,
\* whichever the body carried; the metadata column is not part of the row here
patchFile(id, updates) ==
    [files EXCEPT ![id].isPublic = IF updates.hasIsPublic THEN updates.isPublic ELSE @]

\* PATCH /api/admin/files/:id
PatchFile(id, updates) ==
    /\ IF getFileById(id) = Null
       THEN /\ reply' = [pc |-> "patched", file_id |-> id, status |-> 404, success |-> FALSE]
            /\ files' = files
       ELSE /\ files' = patchFile(id, updates)
            /\ reply' = [pc |-> "patched", file_id |-> id, status |-> 200, success |-> TRUE]
    /\ UNCHANGED <<config, now, cache, hist, useOrder, lastOp, issued, reqs, sig>>

\* the file of these runs, and an id no upload draws
VersionIds == {<<"a">>}
UnknownIds == {<<"b">>}

NextVersion ==
    \/ \E id \in NextId \cap VersionIds : Upload(id, TRUE)
    \/ \E id \in VersionIds : ReqStart(Request(id, NoQuery, NoReqHeaders))
    \/ \E q \in InFlight, arrives \in BOOLEAN : ReqMeta(q, arrives)
    \/ \E q \in InFlight, outcome \in Outcomes : ReqDownload(q, outcome, NoReqHeaders)
    \/ \E id \in VersionIds \cup UnknownIds : OriginPurge(id)
    \/ \E q \in InFlight, notified \in Notifications : OriginPurgeNotify(q, notified)
    \/ \E id \in VersionIds \cup UnknownIds, updates \in PatchBodies : PatchFile(id, updates)
    \/ \E id \in VersionIds : EdgePurge(id)
    \/ EdgePurgeAll

SpecVersion == InitPurge /\ [][NextVersion]_vars

\* the notification a purge of id that wrote version sends
NotifyOf(id, version) == [pc |-> "notify", file_id |-> id, newVersion |-> version]

\* C33: the version of a file record never decreases and changes only in a purge
\* of that file on the origin, by one; a PATCH, the requests and purges of the
\* edge, and a purge of an unknown id, which answers 404 and notifies no edge,
\* leave every version as it is
C33_VersionChangesOnlyByPurge ==
    [][/\ \A id \in FileIds :
             (files[id].exists /\ files'[id].version # files[id].version) =>
                 /\ files'[id].version = files[id].version + 1
                 /\ CopiesIn(NotifyOf(id, files'[id].version), reqs')
                       = CopiesIn(NotifyOf(id, files'[id].version), reqs) + 1
                 /\ \A other \in FileIds \ {id} : files'[other] = files[other]
       /\ (reply'.pc \in {"patched", "done", "meta-ended", "edge-purged", "edge-purged-all"}) =>
             \A id \in FileIds : files'[id].version = files[id].version
       /\ (reply'.pc = "purged" /\ reply'.status = 404) =>
             /\ \A id \in FileIds : files'[id].version = files[id].version
             /\ reqs' = reqs
      ]_vars

\* a PATCH made a purged file private and its version stayed above the first
C33_Witness ==
    /\ reply.pc = "patched" /\ reply.status = 200
    /\ ~files[reply.file_id].isPublic
    /\ files[reply.file_id].version > DefaultVersion

---------------------------------------------------------------------------
(* serveContent on its own: one cache entry, one request                   *)

ApplicationJson == <<"a", "p", "p", "l", "i", "c", "a", "t", "i", "o", "n", "/", "j", "s", "o", "n">>

\* the entries the edge builds from the origin's download answers: the bytes,
\* the type, the quoted ETag and the modification time
ServeEntries ==
    {[content |-> [i \in 1..n |-> i],
      metadata |-> [contentType |-> type,
                    etag |-> Str(generateETag([i \in 1..n |-> i])),
                    lastModified |-> H(HttpDate(BootTime)),
                    contentLength |-> H(Num(n)),
                    cacheControl |-> "public, max-age=31536000, immutable"]] :
        n \in 1..MaxContent, type \in {TextPlain, ImagePng, ApplicationJson}}

\* If-None-Match: none, the entry's ETag, the ETag without its quotes, another
IfNoneMatchInputs(entry) ==
    LET etag == entry.metadata.etag.str IN
    {Absent, Str(etag), Str(SubSeq(etag, 2, Len(etag) - 1)), Str(generateETag(<<0>>))}

\* If-Modified-Since as new Date(...).getTime() reads it: none, a second
\* before Last-Modified, Last-Modified, a second after, not a date
IfModifiedSinceInputs(entry) ==
    LET lastMod == entry.metadata.lastModified.v IN
    {[present |-> FALSE]}
        \cup {[present |-> TRUE, v |-> t] :
                 t \in {NumSub(lastMod, Num(MsPerSec)), lastMod,
                        NumAdd(lastMod, Num(MsPerSec)), NaN}}

\* Range: none, bytes=s-e and bytes=s- over and just past the content, and a
\* range that is not numbers
RangeInputs(entry) ==
    LET n == Len(entry.content) IN
    {Absent, Str(BytesEq \o <<"x", "-">>)}
        \cup {Str(BytesEq \o NumToStr(st) \o <<"-">> \o NumToStr(en)) : st \in 0..n, en \in 0..n}
        \cup {Str(BytesEq \o NumToStr(st) \o <<"-">>) : st \in 0..n}

\* Accept-Encoding: none, one coding, both, a coding refused with q=0
AcceptEncodingInputs ==
    {Absent, Str(EncBr), Str(EncGzip), Str(EncGzip \o <<",", " ">> \o EncBr),
     Str(<<"i", "d", "e", "n", "t", "i", "t", "y">>),
     Str(EncGzip \o <<",", " ">> \o EncBr \o <<";", "q", "=", "0">>),
     Str(EncBr \o <<",", " ">> \o EncGzip \o <<";", "q", "=", "0">>)}

\* serveContent(reply, cacheEntry, request) is called, once in a run
Serve(cacheEntry, request) ==
    /\ reply = NoReply
    /\ reply' = [pc |-> "served", entry |-> cacheEntry, request |-> request,
                 res |-> serveContent(cacheEntry, request)]
    /\ UNCHANGED <<config, now, cache, hist, useOrder, lastOp, files, issued, reqs, sig>>

\* each setting of the two compression switches
ServeConfigs ==
    {[c EXCEPT !.gzip = g, !.brotli = b] :
        c \in {x \in Configs({TRUE}, {0}) : x.maxSize = 1 /\ x.ttl = TickMs},
        g \in BOOLEAN, b \in BOOLEAN}

InitServe ==
    /\ config \in ServeConfigs
    /\ now = BootTime
    /\ cache = <<>>
    /\ hist = [k \in CacheKeys |-> NoHist]
    /\ useOrder = <<>>
    /\ lastOp = NoOp
    /\ files = <<>>
    /\ issued = {}
    /\ reqs = EmptyBag
    /\ reply = NoReply
    /\ sig = NoSig

NextServe ==
    /\ reply = NoReply
    /\ \E cacheEntry \in ServeEntries :
        \E inm \in IfNoneMatchInputs(cacheEntry), ims \in IfModifiedSinceInputs(cacheEntry),
           rg \in RangeInputs(cacheEntry), ae \in AcceptEncodingInputs :
            Serve(cacheEntry,
                  Request(<<"a">>, NoQuery,
                          [ifNoneMatch |-> inm, ifModifiedSince |-> ims, range |-> rg,
                           acceptEncoding |-> ae]))

SpecServe == InitServe /\ [][NextServe]_vars

\* the call made and what it sent
Served == reply.pc = "served"
ServedEntry == reply.entry
ServedHeaders == reply.request.headers
ServedRes == reply.res

\* If-None-Match is the entry's ETag, character for character
EtagMatches ==
    /\ ServedHeaders.ifNoneMatch.present
    /\ ServedHeaders.ifNoneMatch.str = ServedEntry.metadata.etag.str

\* If-Modified-Since reads as a time that is not before Last-Modified
NotModifiedSince ==
    /\ ServedHeaders.ifModifiedSince.present
    /\ ~ServedHeaders.ifModifiedSince.v.nan
    /\ ServedHeaders.ifModifiedSince.v.val >= ServedEntry.metadata.lastModified.v.val

\* C13: for an entry with an ETag, an If-None-Match equal to it gets 304 with
\* an empty body; one that differs, with no If-Modified-Since match, gets 200
\* or 206 with bytes of the entry
C13_IfNoneMatch ==
    (Served /\ Truthy(ServedEntry.metadata.etag)) =>
        /\ EtagMatches => ServedRes.status = 304 /\ ServedRes.body = EmptyBody
        /\ (~EtagMatches /\ ~NotModifiedSince) =>
              /\ ServedRes.status \in {200, 206}
              /\ ServedRes.body.kind = "buffer"
              /\ ServedRes.status = 200 =>
                    ServedRes.body.bytes \in {ServedEntry.content,
                                              Compressed("br", ServedEntry.content),
                                              Compressed("gzip", ServedEntry.content)}

\* a request with the entry's ETag and a Range was answered 304
C13_Witness ==
    /\ Served /\ EtagMatches /\ ServedHeaders.range.present
    /\ ServedRes.status = 304

\* C14: for an entry with a Last-Modified, an If-Modified-Since at or after it
\* gets 304 with no body; one before it, or one that is not a time, gets 304
\* only when If-None-Match matches
C14_IfModifiedSince ==
    (Served /\ ServedEntry.metadata.lastModified.present) =>
        /\ NotModifiedSince => ServedRes.status = 304 /\ ServedRes.body = EmptyBody
        /\ (ServedHeaders.ifModifiedSince.present /\ ~NotModifiedSince /\ ~EtagMatches) =>
              ServedRes.status # 304

\* an If-Modified-Since equal to Last-Modified, with another ETag, was answered 304
C14_Witness ==
    /\ Served /\ ~EtagMatches /\ ServedHeaders.ifNoneMatch.present
    /\ ServedHeaders.ifModifiedSince.present
    /\ ServedHeaders.ifModifiedSince.v = ServedEntry.metadata.lastModified.v
    /\ ServedRes.status = 304

\* the reply C15 asks for: 206, the range and the length in the headers, the
\* bytes first through last in the body
IsPartial(res, content, first, last) ==
    /\ res.status = 206
    /\ res.headers.contentRange =
          H(BytesSp \o NumToStr(first) \o <<"-">> \o NumToStr(last) \o <<"/">>
            \o NumToStr(Len(content)))
    /\ res.headers.acceptRanges = H("bytes")
    /\ res.headers.contentLength = H(Num(last - first + 1))
    /\ res.body = Buffer([i \in 1..(last - first + 1) |-> content[first + i]])

\* C15: with no conditional header matching, Range: bytes=s-e with
\* 0 <= s <= e <= n-1, and bytes=s- read as s to n-1, gets 206 with Content-Range
\* bytes s-e/n, Accept-Ranges bytes, Content-Length e-s+1 and bytes s to e
C15_RangeIsExactSlice ==
    (Served /\ ~EtagMatches /\ ~NotModifiedSince) =>
        LET content == ServedEntry.content
            n == Len(content)
        IN \A first \in 0..(n - 1) :
              /\ \A last \in first..(n - 1) :
                    ServedHeaders.range
                        = Str(BytesEq \o NumToStr(first) \o <<"-">> \o NumToStr(last))
                    => IsPartial(ServedRes, content, first, last)
              /\ ServedHeaders.range = Str(BytesEq \o NumToStr(first) \o <<"-">>)
                    => IsPartial(ServedRes, content, first, n - 1)

\* a range inside a longer content was answered with that slice
C15_Witness ==
    /\ Served /\ Len(ServedEntry.content) = MaxContent
    /\ ServedHeaders.range = Str(BytesEq \o <<"1", "-", "1">>)
    /\ IsPartial(ServedRes, ServedEntry.content, 1, 1)

\* whether an Accept-Encoding value allows a coding: the coding is listed and
\* not refused with q=0
Allows(acceptEncoding, coding) ==
    LET items == Split(SelectSeq(acceptEncoding, LAMBDA ch : ch # " "), ",") IN
    \E i \in 1..Len(items) :
        LET parts == Split(items[i], ";") IN
        /\ parts[1] = coding
        /\ ~(Len(parts) > 1 /\ parts[2] = <<"q", "=", "0">>)

\* C16: a full reply (no Range, not 304) is encoded br when the type is in the
\* allow-list, brotli is on and Accept-Encoding allows br; else gzip when the
\* type is in the allow-list, gzip is on and Accept-Encoding allows gzip; else
\* it has no Content-Encoding
C16_EncodingFollowsAcceptEncoding ==
    (Served /\ ServedRes.status = 200) =>
        LET accept == IF ServedHeaders.acceptEncoding.present
                      THEN ServedHeaders.acceptEncoding.str ELSE <<>>
            compressible == isCompressibleType(ServedEntry.metadata.contentType)
        IN ServedRes.headers.contentEncoding =
              (IF compressible /\ config.brotli /\ Allows(accept, EncBr) THEN H("br")
               ELSE IF compressible /\ config.gzip /\ Allows(accept, EncGzip) THEN H("gzip")
               ELSE NoH)

\* C23: a 304 reply has no body and carries no content headers beyond the
\* validators: no Content-Type, Content-Length, Content-Encoding, Content-Range
C23_NotModifiedHasNoContentHeaders ==
    (Served /\ ServedRes.status = 304) =>
        /\ ServedRes.body = EmptyBody
        /\ ~ServedRes.headers.contentType.present
        /\ ~ServedRes.headers.contentLength.present
        /\ ~ServedRes.headers.contentEncoding.present
        /\ ~ServedRes.headers.contentRange.present

\* the start and the end a Content-Range value reports
ContentRangeOf(res) ==
    LET value == SubSeq(res.headers.contentRange.v, Len(BytesSp) + 1,
                        Len(res.headers.contentRange.v))
        span  == Split(Split(value, "/")[1], "-")
    IN [start |-> parseInt(span[1]),
        end   |-> IF Len(span) > 1 THEN parseInt(span[2]) ELSE NaN]

\* C24: in every 206 reply on an entity of length n, the start and end of
\* Content-Range satisfy 0 <= start <= end <= n-1, Content-Length is
\* end - start + 1 and the body has that many bytes, also when the end asked
\* for is n or more
C24_PartialReplyIsClamped ==
    (Served /\ ServedRes.status = 206) =>
        LET n == Len(ServedEntry.content)
            r == ContentRangeOf(ServedRes)
        IN /\ ~r.start.nan /\ ~r.end.nan
           /\ 0 <= r.start.val /\ r.start.val <= r.end.val /\ r.end.val <= n - 1
           /\ ServedRes.headers.contentLength = H(Num(r.end.val - r.start.val + 1))
           /\ Len(ServedRes.body.bytes) = r.end.val - r.start.val + 1

\* a Range value C25 counts as invalid or unsatisfiable: no bytes= unit, a start
\* that is missing or not a number, a start after the end or at or past the
\* length
InvalidRange(range, n) ==
    LET parts == Split(RemoveFirst(range, BytesEq), "-")
        start == parseInt(parts[1])
        end   == IF Len(parts) > 1 /\ Len(parts[2]) > 0 THEN parseInt(parts[2]) ELSE Num(n - 1)
    IN \/ ~IsPrefix(BytesEq, range)
       \/ start.nan
       \/ end.nan
       \/ start.val > end.val
       \/ start.val >= n

\* C25: an invalid or unsatisfiable Range never gets 206: with no conditional
\* match the reply is 200 with the full entity or 416, the same for all of them
C25_InvalidRangeIsNot206 ==
    /\ (Served /\ ~EtagMatches /\ ~NotModifiedSince /\ Truthy(ServedHeaders.range)
          /\ InvalidRange(ServedHeaders.range.str, Len(ServedEntry.content)))
       => /\ ServedRes.status \in {200, 416}
          /\ ServedRes.status = 200 =>
                ServedRes.body.bytes \in {ServedEntry.content,
                                          Compressed("br", ServedEntry.content),
                                          Compressed("gzip", ServedEntry.content)}

\* C26: a reply to a request with a Range is never compressed: it carries no
\* Content-Encoding, and a 206 body is the slice of the stored bytes as they are
C26_RangeReplyIsNotCompressed ==
    /\ (Served /\ ServedHeaders.range.present /\ ServedHeaders.range.str # <<>>) =>
          ~ServedRes.headers.contentEncoding.present
    /\ (Served /\ ServedRes.status = 206) =>
          /\ ~ServedRes.headers.contentEncoding.present
          /\ \E first \in 1..(Len(ServedEntry.content) + 1), last \in 0..Len(ServedEntry.content) :
                ServedRes.body = Buffer(SubSeq(ServedEntry.content, first, last))

\* a range of a compressible entry was asked by a client that accepts br and
\* gzip, and a non-empty slice was sent
C26_Witness ==
    /\ Served /\ ServedRes.status = 206
    /\ isCompressibleType(ServedEntry.metadata.contentType)
    /\ config.brotli /\ config.gzip
    /\ ServedHeaders.acceptEncoding = Str(EncGzip \o <<",", " ">> \o EncBr)
    /\ Len(ServedRes.body.bytes) > 0
    /\ Len(ServedRes.body.bytes) < Len(ServedEntry.content)

\* the request carries a Range or an Accept-Encoding that serveContent would read
AsksRangeOrEncoding ==
    Truthy(ServedHeaders.range) \/ Truthy(ServedHeaders.acceptEncoding)

\* C36: the conditional check comes before the range and before compression: a
\* request with a Range or an Accept-Encoding whose If-None-Match is the
\* entry's ETag, or whose If-Modified-Since is not before Last-Modified, gets
\* 304 with no body, no Content-Range and no Content-Encoding
C36_ConditionalComesFirst ==
    (/\ Served /\ AsksRangeOrEncoding
     /\ \/ Truthy(ServedEntry.metadata.etag) /\ EtagMatches
        \/ ServedEntry.metadata.lastModified.present /\ NotModifiedSince)
        => /\ ServedRes.status = 304
           /\ ServedRes.body = EmptyBody
           /\ ~ServedRes.headers.contentRange.present
           /\ ~ServedRes.headers.contentEncoding.present

\* a request for a compressible entry with a Range, an Accept-Encoding the edge
\* would honour and an If-Modified-Since after Last-Modified was answered 304
C36_Witness ==
    /\ Served /\ ~EtagMatches /\ NotModifiedSince
    /\ ServedHeaders.ifModifiedSince.v # ServedEntry.metadata.lastModified.v
    /\ Truthy(ServedHeaders.range)
    /\ config.brotli /\ isCompressibleType(ServedEntry.metadata.contentType)
    /\ Truthy(ServedHeaders.acceptEncoding)
    /\ Includes(ServedHeaders.acceptEncoding.str, EncBr)
    /\ ServedRes.status = 304

---------------------------------------------------------------------------
(* Faults while the reply is assembled: src/edge/routes/cdn.js             *)

\* metadata.contentType of an entry whose origin sent no Content-Type: the
\* value undefined, written as a type that is no string of characters
UndefinedType == <<"undefined">>

\* a promise of a reply: fulfilled with the reply, or rejected with an error
Fulfilled(res) == [rejected |-> FALSE, res |-> res]
Rejected(message) == [rejected |-> TRUE, message |-> message]

\* serveContent gets past the conditional and the range checks and reaches
\* isCompressibleType(metadata.contentType)
reachesCompression(cacheEntry, request) ==
    LET metadata == cacheEntry.metadata
        ifModifiedSince == request.headers.ifModifiedSince
    IN /\ ~ifNoneMatchEquals(request.headers.ifNoneMatch, metadata.etag)
       /\ ~(/\ ifModifiedSince.present /\ metadata.lastModified.present
            /\ NumLe(metadata.lastModified.v, ifModifiedSince.v))
       /\ ~Truthy(request.headers.range)

\* the promise the async serveContent returns: contentType.startsWith throws
\* for an entry whose metadata.contentType is undefined, and the awaited
\* brotliCompress or gzip may reject; either rejects the promise
serveContentPromise(cacheEntry, request, zlibFails) ==
    IF ~reachesCompression(cacheEntry, request)
    THEN Fulfilled(serveContent(cacheEntry, request))
    ELSE IF cacheEntry.metadata.contentType = UndefinedType
    THEN Rejected("Cannot read properties of undefined (reading 'startsWith')")
    ELSE LET res == serveContent(cacheEntry, request) IN
         IF zlibFails /\ res.headers.contentEncoding.present
         THEN Rejected("zlib error")
         ELSE Fulfilled(res)

\* the answer of the framework's default error handler to a rejected handler
\* promise; the headers it sends are not modelled
FrameworkErrorBody(message) ==
    [kind |-> "json", statusCode |-> 500, error |-> "Internal Server Error",
     message |-> message]

\* the reply of GET /cdn/:file_id once serveContent was called: the handler
\* returns serveContent's promise from inside its try blocks without awaiting
\* it, so a rejection passes both catch clauses and reaches the framework
handlerReply(promise) ==
    IF promise.rejected THEN Reply(500, NoHeaders, FrameworkErrorBody(promise.message))
    ELSE promise.res

\* the entries of ServeEntries, and the same entries from an origin that sent
\* no Content-Type
FaultEntries ==
    ServeEntries \cup {[e EXCEPT !.metadata.contentType = UndefinedType] : e \in ServeEntries}

\* the handler calls serveContent and the request is answered, once in a run
ServeSettle(cacheEntry, request, zlibFails) ==
    LET promise == serveContentPromise(cacheEntry, request, zlibFails) IN
    /\ reply = NoReply
    /\ reply' = [pc |-> "settled", entry |-> cacheEntry, request |-> request,
                 fault |-> promise.rejected, res |-> handlerReply(promise)]
    /\ UNCHANGED <<config, now, cache, hist, useOrder, lastOp, files, issued, reqs, sig>>

NextFault ==
    /\ reply = NoReply
    /\ \E cacheEntry \in FaultEntries, zlibFails \in BOOLEAN :
        \E inm \in {Absent, cacheEntry.metadata.etag},
           rg \in {Absent, Str(BytesEq \o <<"0", "-", "0">>)},
           ae \in {Absent, Str(EncBr), Str(EncGzip)} :
            ServeSettle(cacheEntry,
                        Request(<<"a">>, NoQuery,
                                [ifNoneMatch |-> inm, ifModifiedSince |-> [present |-> FALSE],
                                 range |-> rg, acceptEncoding |-> ae]),
                        zlibFails)

SpecFault == InitServe /\ [][NextFault]_vars

\* C21: every error reply of GET /cdn/:id has a body {error: string} and
\* nothing else, and a fault while the reply is assembled (an entry without a
\* content type at the compression check, a failed compression) ends with 500
\* and {error: 'Internal server error'}
C21_ErrorsAreStructured ==
    reply.pc = "settled" =>
        /\ reply.res.status >= 400 =>
              (reply.res.body.kind = "json" /\ DOMAIN reply.res.body = {"kind", "error"})
        /\ reply.fault =>
              reply.res = Reply(500, NoHeaders, ErrorBody("Internal server error"))

===========================================================================
